---- MODULE Spec2Model ----
(***************************************************************************)
(* Multi-site documentation server (src/src/index.ts).                     *)
(*                                                                         *)
(* Three tool handlers (fetch_doc_index, fetch_doc_page, search_docs) look *)
(* a site key up in DOC_SITES, build a locator, await fetchContent and     *)
(* turn the response, or the failure, into a result {isError, text}.       *)
(*                                                                         *)
(* A string is a sequence of symbols.  A symbol is one character ("a",     *)
(* "/", ":", LF, ...) or an atomic chunk of characters none of which the   *)
(* code inspects ("module-federation.io", "llms.txt", a message text).     *)
(* Sequences are 1-based where the code's arrays are 0-based.              *)
(*                                                                         *)
(* Spec       one invocation over the full sets of sites, targets, queries *)
(*            and fetch responses.                                         *)
(* ConcSpec   NumInvocations handlers interleaved at their awaits.         *)
(* SearchSpec the line scan of search_docs over every text and query       *)
(*            within MaxTextLen and MaxQueryLen.                           *)
(***************************************************************************)
EXTENDS Integers, Sequences, FiniteSets, TLC

VARIABLES
    inv,        \* invocation -> the handler's position, arguments, locals and result
    text,       \* search core: the fetched index text
    query,      \* search core: the query
    ci,         \* search core: the caseInsensitive flag
    matches,    \* search core: the handler's local `matches`
    phase       \* search core: "input" before the scan, "scanned" after it

vars == <<inv, text, query, ci, matches, phase>>

---------------------------------------------------------------------------
(* Bounds of the model *)

MaxTextLen == 4
MaxQueryLen == 2
NumInvocations == 2

---------------------------------------------------------------------------
(* Strings: the JavaScript built-ins the handlers call *)

LF == "\n"
CapSigma == "U+03A3"
SmallSigma == "U+03C3"
FinalSigma == "U+03C2"

Cased(c) == c \in {"a", "A", "b", "B", CapSigma, SmallSigma, FinalSigma}

\* Unicode Final_Sigma: a capital sigma that follows a cased letter and is not
\* followed by one lower-cases to the final form.  (No symbol of the model is
\* case-ignorable, so only the direct neighbours count.)
IsFinalSigma(s, i) ==
    /\ i > 1 /\ Cased(s[i - 1])
    /\ ~(i < Len(s) /\ Cased(s[i + 1]))

LowerSym(s, i) ==
    CASE s[i] = "A" -> "a"
      [] s[i] = "B" -> "b"
      [] s[i] = CapSigma -> IF IsFinalSigma(s, i) THEN FinalSigma ELSE SmallSigma
      [] OTHER -> s[i]

\* String.prototype.toLowerCase
ToLowerCase(s) == [i \in 1..Len(s) |-> LowerSym(s, i)]

\* String.prototype.startsWith
StartsWith(s, prefix) ==
    /\ Len(prefix) <= Len(s)
    /\ SubSeq(s, 1, Len(prefix)) = prefix

\* String.prototype.includes
Includes(s, q) ==
    \E k \in 0..(Len(s) - Len(q)) : SubSeq(s, k + 1, k + Len(q)) = q

RECURSIVE SplitFrom(_, _, _)
SplitFrom(s, i, cur) ==
    IF i > Len(s) THEN <<cur>>
    ELSE IF s[i] = LF THEN <<cur>> \o SplitFrom(s, i + 1, <<>>)
    ELSE SplitFrom(s, i + 1, Append(cur, s[i]))

\* String.prototype.split("\n")
Split(s) == SplitFrom(s, 1, <<>>)

RECURSIVE Join(_, _)
\* Array.prototype.join(sep)
Join(parts, sep) ==
    IF Len(parts) = 0 THEN <<>>
    ELSE IF Len(parts) = 1 THEN parts[1]
    ELSE parts[1] \o sep \o Join(Tail(parts), sep)

---------------------------------------------------------------------------
(* search_docs: the line scan *)

\* A mutant: the comparison text is lower-cased whatever the flag says.
SearchTextAlwaysLower(s, caseInsensitive) == ToLowerCase(s)

\* searchQuery / searchLine: lower-cased when caseInsensitive
SearchText(s, caseInsensitive) ==
    IF caseInsensitive THEN ToLowerCase(s) ELSE s

\* A mutant: an empty query matches nothing.
LineMatchesNonEmpty(line, q, caseInsensitive) ==
    /\ q # <<>>
    /\ Includes(SearchText(line, caseInsensitive), SearchText(q, caseInsensitive))

\* searchLine.includes(searchQuery)
LineMatches(line, q, caseInsensitive) ==
    Includes(SearchText(line, caseInsensitive), SearchText(q, caseInsensitive))

\* A mutant: the context is taken from the lower-cased lines.
ContextLowered(lines, index) ==
    Join((IF index > 1 THEN <<ToLowerCase(lines[index - 1])>> ELSE <<>>)
            \o <<ToLowerCase(lines[index])>>
            \o (IF index < Len(lines) THEN <<ToLowerCase(lines[index + 1])>> ELSE <<>>),
         <<LF>>)

\* context: previous line, matching line, next line
Context(lines, index) ==
    LET c0 == <<>>
        c1 == IF index > 1 THEN Append(c0, lines[index - 1]) ELSE c0
        c2 == Append(c1, lines[index])
        c3 == IF index < Len(lines) THEN Append(c2, lines[index + 1]) ELSE c2
    IN  Join(c3, <<LF>>)

\* A mutant: the newest match goes to the front.
PushFront(ms, context) == <<context>> \o ms

\* matches.push(context.join("\n"))
Push(ms, context) == Append(ms, context)

RECURSIVE ForEach(_, _, _, _, _)
\* lines.forEach((line, index) => ...)
ForEach(lines, index, q, caseInsensitive, ms) ==
    IF index > Len(lines) THEN ms
    ELSE IF LineMatches(lines[index], q, caseInsensitive)
         THEN ForEach(lines, index + 1, q, caseInsensitive,
                      Push(ms, Context(lines, index)))
         ELSE ForEach(lines, index + 1, q, caseInsensitive, ms)

\* The scan of search_docs from the split to the filled `matches`;
\* `ms0` is the freshly declared `matches`.
ScanIndex(indexContent, q, caseInsensitive, ms0) ==
    ForEach(Split(indexContent), 1, q, caseInsensitive, ms0)

---------------------------------------------------------------------------
(* The site registry *)

HTTP == <<"h", "t", "t", "p", ":", "/", "/">>
HTTPS == <<"h", "t", "t", "p", "s", ":", "/", "/">>

ModuleFederation == <<"module-federation">>
ModernJs == <<"modernjs">>
Firebase == <<"firebase">>

\* The own properties of the DOC_SITES object literal.
DOC_SITES ==
    [k \in {ModuleFederation, ModernJs, Firebase} |->
        CASE k = ModuleFederation ->
                [name |-> <<"Module Federation">>,
                 baseUrl |-> HTTPS \o <<"module-federation.io">>,
                 indexPath |-> <<"/", "llms.txt">>]
          [] k = ModernJs ->
                [name |-> <<"Modern.js">>,
                 baseUrl |-> HTTPS \o <<"modernjs.dev">>,
                 indexPath |-> <<"/", "llms.txt">>]
          [] k = Firebase ->
                [name |-> <<"Firebase">>,
                 baseUrl |-> HTTPS \o <<"firebase.google.com", "/", "docs">>,
                 indexPath |-> <<"/", "llms.txt">>]]

\* Object.keys(DOC_SITES): the own keys in insertion order.
SiteKeys == <<ModuleFederation, ModernJs, Firebase>>

\* VALID_SITES = Object.keys(DOC_SITES).join(", ")
VALID_SITES == Join(SiteKeys, <<",", " ">>)

\* DOC_SITES is a plain object literal, so DOC_SITES[site] also finds what it
\* inherits from Object.prototype.  DOC_SITES["constructor"] is the function
\* Object: truthy, its `name` is "Object", and it has no baseUrl and no
\* indexPath (both undefined, rendered "undefined" by a template literal).
ObjectPrototype ==
    [k \in {<<"constructor">>} |->
        [name |-> <<"Object">>,
         baseUrl |-> <<"undefined">>,
         indexPath |-> <<"undefined">>]]

\* `!docSite` is false: the property access found a (truthy) value.
Found(site) == site \in (DOMAIN DOC_SITES) \cup (DOMAIN ObjectPrototype)

\* const docSite = DOC_SITES[site], read through a template literal
DocSite(site) ==
    IF site \in DOMAIN DOC_SITES THEN DOC_SITES[site] ELSE ObjectPrototype[site]

---------------------------------------------------------------------------
(* The input schemas *)

\* z.enum(["module-federation", "modernjs", "firebase"])
SiteEnum == {ModuleFederation, ModernJs, Firebase}

\* A mutant: one tool's default is another site.
SiteDefaultDiffers(tool) ==
    IF tool = "search_docs" THEN ModernJs ELSE ModuleFederation

\* .default("module-federation"), written out in each of the three schemas
SiteDefault(tool) ==
    CASE tool = "fetch_doc_index" -> ModuleFederation
      [] tool = "fetch_doc_page" -> ModuleFederation
      [] tool = "search_docs" -> ModuleFederation

\* z.boolean().optional().default(true)
CaseInsensitiveDefault == TRUE

\* An optional parameter is the set of the values given: empty when omitted.
OrDefault(given, default) ==
    IF given = {} THEN default ELSE CHOOSE v \in given : TRUE

\* What the handler receives for a raw input the schema accepts.
Parse(tool, raw) ==
    [site |-> OrDefault(raw.site, SiteDefault(tool)),
     url |-> raw.url,
     query |-> raw.query,
     caseInsensitive |-> OrDefault(raw.caseInsensitive, CaseInsensitiveDefault)]

\* The optional parameters the caller left out.
Omitted(raw) ==
    (IF raw.site = {} THEN {"site"} ELSE {})
        \cup (IF raw.caseInsensitive = {} THEN {"caseInsensitive"} ELSE {})

---------------------------------------------------------------------------
(* fetchContent and the fetch capability *)

NoResponse == [kind |-> "none", status |-> <<>>, body |-> <<>>, message |-> <<>>]

Ok(body) == [kind |-> "ok", status |-> <<"200">>, body |-> body, message |-> <<>>]

NotOk(status) == [kind |-> "status", status |-> <<status>>, body |-> <<>>, message |-> <<>>]

Rejected(message) ==
    [kind |-> "rejected", status |-> <<>>, body |-> <<>>, message |-> <<message>>]

\* fetch() parses its argument as an absolute URL before any network activity.
ParsesAsUrl(url) ==
    \/ StartsWith(url, HTTP) /\ Len(url) > Len(HTTP)
    \/ StartsWith(url, HTTPS) /\ Len(url) > Len(HTTPS)

\* What `await fetch(url)` can settle to: any of `responses`, or, for what is
\* no absolute URL, only the rejection of the parse.
Settlements(url, responses) ==
    IF ParsesAsUrl(url) THEN responses ELSE {Rejected("Failed to parse URL")}

\* fetchContent(url), given what fetch settled to: the text, or the error thrown
fetchContent(url, response) ==
    LET thrown ==
            CASE response.kind = "rejected" -> response.message
              [] response.kind = "status" ->
                    <<"HTTP error! status: ">> \o response.status
              [] OTHER -> <<>>
    IN  IF response.kind = "ok"
        THEN [threw |-> FALSE, value |-> response.body]
        ELSE [threw |-> TRUE,
              value |-> <<"Failed to fetch from ">> \o url \o <<": ">> \o thrown]

---------------------------------------------------------------------------
(* The three handlers *)

Tools == {"fetch_doc_index", "fetch_doc_page", "search_docs"}

NoResult == [isError |-> FALSE, text |-> <<>>]

\* The unknown-site branch of each handler
UnknownSite(site) ==
    [isError |-> TRUE,
     text |-> <<"Error: Unknown site \"">> \o site
                \o <<"\". Valid sites are: ">> \o VALID_SITES]

\* The catch block of each handler
Caught(errorMessage) ==
    [isError |-> TRUE, text |-> <<"Error: ">> \o errorMessage]

\* indexUrl = `${docSite.baseUrl}${docSite.indexPath}`
IndexUrl(docSite) == docSite.baseUrl \o docSite.indexPath

\* A mutant: a bare path is appended without the separating slash.
FetchUrlNoSlash(docSite, url) ==
    IF StartsWith(url, HTTP) \/ StartsWith(url, HTTPS) THEN url
    ELSE docSite.baseUrl \o url

\* fetch_doc_page: "Normalize the URL"
FetchUrl(docSite, url) ==
    IF StartsWith(url, HTTP) \/ StartsWith(url, HTTPS) THEN url
    ELSE IF StartsWith(url, <<"/">>) THEN docSite.baseUrl \o url
    ELSE docSite.baseUrl \o <<"/">> \o url

\* The locator a handler passes to fetchContent.
Locator(tool, args) ==
    IF tool = "fetch_doc_page"
    THEN FetchUrl(DocSite(args.site), args.url)
    ELSE IndexUrl(DocSite(args.site))

\* A mutant: `matches` declared at module level and never cleared, so that a
\* scan starts from what an earlier search left there.
LeftoverMatches ==
    LET earlier == {q \in DOMAIN inv : inv[q].pc = "returned" /\ inv[q].matches # <<>>}
    IN  IF earlier = {} THEN <<>> ELSE inv[CHOOSE q \in earlier : TRUE].matches

\* const matches: string[] = []
NewMatches == <<>>

\* search_docs: `matches` after the scan of the fetched index
Matches(tool, args, content) ==
    IF tool = "search_docs"
    THEN ScanIndex(content, args.query, args.caseInsensitive, NewMatches)
    ELSE <<>>

\* The result each handler returns once fetchContent returned `content`.
Success(tool, args, fetchUrl, content, ms) ==
    LET docSite == DocSite(args.site)
    IN  CASE tool = "fetch_doc_index" ->
                [isError |-> FALSE,
                 text |-> <<"Documentation index for ">> \o docSite.name
                            \o <<":", LF, LF>> \o content]
          [] tool = "fetch_doc_page" ->
                [isError |-> FALSE,
                 text |-> <<"Content from ">> \o fetchUrl \o <<" (">> \o docSite.name
                            \o <<"):", LF, LF>> \o content]
          [] tool = "search_docs" ->
                IF Len(ms) = 0
                THEN [isError |-> FALSE,
                      text |-> <<"No matches found for \"">> \o args.query
                                 \o <<"\" in the ">> \o docSite.name
                                 \o <<" documentation index.">>]
                ELSE [isError |-> FALSE,
                      text |-> <<"Found ", ToString(Len(ms)), " match",
                                 IF Len(ms) = 1 THEN "" ELSE "es", " for \"">>
                                 \o args.query \o <<"\" in ">> \o docSite.name
                                 \o <<":", LF, LF>> \o Join(ms, <<LF, "---", LF>>)]

NoArgs == [site |-> <<>>, url |-> <<>>, query |-> <<>>, caseInsensitive |-> FALSE]

Idle ==
    [pc |-> "idle", tool |-> "none", args |-> NoArgs, omitted |-> {},
     calls |-> <<>>, response |-> NoResponse, matches |-> <<>>, result |-> NoResult]

\* await fetch(url): one call of the fetch capability
Fetch(calls, url) == Append(calls, url)

\* A handler from its entry to its first await, or to its return if the site
\* is unknown.
Enter(p, tool, args, omitted) ==
    inv' = [inv EXCEPT ![p] =
        IF ~Found(args.site)
        THEN [Idle EXCEPT !.pc = "returned", !.tool = tool, !.args = args,
                          !.omitted = omitted, !.result = UnknownSite(args.site)]
        ELSE [Idle EXCEPT !.pc = "awaiting", !.tool = tool, !.args = args,
                          !.omitted = omitted,
                          !.calls = Fetch(<<>>, Locator(tool, args))]]

\* A tool call that arrives through the tool's input schema: defaults filled
\* in, the site one of the enumeration.
CallTool(p, tool, raw) ==
    /\ inv[p].pc = "idle"
    /\ Parse(tool, raw).site \in SiteEnum
    /\ Enter(p, tool, Parse(tool, raw), Omitted(raw))
    /\ UNCHANGED <<text, query, ci, matches, phase>>

\* The handler entered with a site the schema does not list: the case its
\* unknown-site branch is written for.
CallHandler(p, tool, args) ==
    /\ inv[p].pc = "idle"
    /\ args.site \notin SiteEnum
    /\ Enter(p, tool, args, {})
    /\ UNCHANGED <<text, query, ci, matches, phase>>

\* fetch settles and the handler runs from its await to its return.
Settle(p, response) ==
    /\ inv[p].pc = "awaiting"
    /\ LET tool == inv[p].tool
           args == inv[p].args
           url == inv[p].calls[Len(inv[p].calls)]
           outcome == fetchContent(url, response)
           ms == IF outcome.threw THEN <<>> ELSE Matches(tool, args, outcome.value)
       IN  inv' = [inv EXCEPT ![p].pc = "returned",
                              ![p].response = response,
                              ![p].matches = ms,
                              ![p].result =
                                  IF outcome.threw THEN Caught(outcome.value)
                                  ELSE Success(tool, args, url, outcome.value, ms)]
    /\ UNCHANGED <<text, query, ci, matches, phase>>

---------------------------------------------------------------------------
(* One invocation, over the full input sets *)

UnlistedSites == {<<"unknown-site">>, <<"constructor">>}

Targets ==
    {HTTPS \o <<"x", "/", "y">>,
     HTTP \o <<"x">>,
     <<"/", "a", "/", "b">>,
     <<"a", "/", "b">>,
     <<>>,
     <<"h", "t", "t", "p", ":", "/", "x">>,
     <<"H", "T", "T", "P", "S", ":", "/", "/", "x">>,
     <<"/", "/", "x">>}

Queries == {<<"a">>, <<"A">>, <<>>, <<"z">>}

Bodies == {<<"a", LF, "b", LF, "A", LF, "c">>, <<>>}

Responses ==
    {Ok(b) : b \in Bodies} \cup {NotOk("404"), NotOk("500"), Rejected("fetch failed")}

OptionalSites == {{}} \cup {{k} : k \in SiteEnum}

OptionalFlags == {{}, {TRUE}, {FALSE}}

\* The raw inputs of a tool, its schema's parameters only.
RawInputs(tool, sites, targets, queries, flags) ==
    CASE tool = "fetch_doc_index" ->
            [site : sites, url : {<<>>}, query : {<<>>}, caseInsensitive : {{FALSE}}]
      [] tool = "fetch_doc_page" ->
            [site : sites, url : targets, query : {<<>>}, caseInsensitive : {{FALSE}}]
      [] tool = "search_docs" ->
            [site : sites, url : {<<>>}, query : queries, caseInsensitive : flags]

\* The arguments a handler can see for the sites of `sites`.
Arguments(tool, sites, targets, queries) ==
    CASE tool = "fetch_doc_index" ->
            [site : sites, url : {<<>>}, query : {<<>>}, caseInsensitive : {FALSE}]
      [] tool = "fetch_doc_page" ->
            [site : sites, url : targets, query : {<<>>}, caseInsensitive : {FALSE}]
      [] tool = "search_docs" ->
            [site : sites, url : {<<>>}, query : queries, caseInsensitive : BOOLEAN]

SearchIdle ==
    /\ text = <<>>
    /\ query = <<>>
    /\ ci = FALSE
    /\ matches = <<>>
    /\ phase = "off"

Init ==
    /\ inv = [p \in {1} |-> Idle]
    /\ SearchIdle

ToolCall ==
    \E p \in DOMAIN inv, tool \in Tools :
        \E raw \in RawInputs(tool, OptionalSites, Targets, Queries, OptionalFlags) :
            CallTool(p, tool, raw)

HandlerCall ==
    \E p \in DOMAIN inv, tool \in Tools :
        \E args \in Arguments(tool, UnlistedSites, Targets, Queries) :
            CallHandler(p, tool, args)

FetchSettles ==
    \E p \in DOMAIN inv :
        /\ inv[p].pc = "awaiting"
        /\ \E response \in Settlements(inv[p].calls[1], Responses) :
               Settle(p, response)

Next == ToolCall \/ HandlerCall \/ FetchSettles

Spec == Init /\ [][Next]_vars

---------------------------------------------------------------------------
(* Concurrent invocations, over small input sets *)

ConcSites == {{}, {ModernJs}}

ConcTargets == {<<"/", "a">>}

ConcQueries == {<<"a">>}

ConcResponses == {Ok(<<"a", LF, "b">>), Ok(<<"b">>), NotOk("404")}

ConcInit ==
    /\ inv = [p \in 1..NumInvocations |-> Idle]
    /\ SearchIdle

ConcToolCall ==
    \E p \in DOMAIN inv, tool \in Tools :
        \E raw \in RawInputs(tool, ConcSites, ConcTargets, ConcQueries, {{}}) :
            CallTool(p, tool, raw)

ConcHandlerCall ==
    \E p \in DOMAIN inv, tool \in Tools :
        \E args \in Arguments(tool, {<<"unknown-site">>}, ConcTargets, ConcQueries) :
            CallHandler(p, tool, args)

ConcFetchSettles ==
    \E p \in DOMAIN inv :
        /\ inv[p].pc = "awaiting"
        /\ \E response \in Settlements(inv[p].calls[1], ConcResponses) :
               Settle(p, response)

ConcNext == ConcToolCall \/ ConcHandlerCall \/ ConcFetchSettles

ConcSpec == ConcInit /\ [][ConcNext]_vars

---------------------------------------------------------------------------
(* The search core on its own, over every text and query within the bounds *)

TextAlphabet == {"a", "A", CapSigma, LF}

StrUpTo(n) == UNION {[1..k -> TextAlphabet] : k \in 0..n}

NoInvocations == [p \in {} |-> 0]

SearchInit ==
    /\ inv = NoInvocations
    /\ text \in StrUpTo(MaxTextLen)
    /\ query \in StrUpTo(MaxQueryLen)
    /\ ci \in BOOLEAN
    /\ matches = <<>>
    /\ phase = "input"

Scan ==
    /\ phase = "input"
    /\ matches' = ScanIndex(text, query, ci, <<>>)
    /\ phase' = "scanned"
    /\ UNCHANGED <<inv, text, query, ci>>

SearchNext == Scan

SearchSpec == SearchInit /\ [][SearchNext]_vars

---------------------------------------------------------------------------
(* Properties of the search core (checked under SearchSpec) *)

Lines == Split(text)

Scanned == phase = "scanned"

\* The comparison text the specification describes.
Effective(s) == IF ci THEN ToLowerCase(s) ELSE s

MatchingIdx ==
    {i \in 1..Len(Lines) : Includes(Effective(Lines[i]), Effective(query))}

RECURSIVE Ascending(_)
Ascending(S) ==
    IF S = {} THEN <<>>
    ELSE LET m == CHOOSE x \in S : \A y \in S : x <= y
         IN  <<m>> \o Ascending(S \ {m})

\* Line i-1 if there is one, line i, line i+1 if there is one.
Neighbourhood(lines, i) ==
    (IF i > 1 THEN <<lines[i - 1]>> ELSE <<>>)
        \o <<lines[i]>>
        \o (IF i < Len(lines) THEN <<lines[i + 1]>> ELSE <<>>)

Occurrences(s, q) ==
    {k \in 0..(Len(s) - Len(q)) : SubSeq(s, k + 1, k + Len(q)) = q}

\* C2: search returns exactly one match context per line index whose effective
\* text contains the effective query, in strictly ascending order of the
\* matched line index, with no entry omitted, added or moved.
C2_OneContextPerMatchingLineAscending ==
    Scanned =>
        LET idx == Ascending(MatchingIdx)
        IN  /\ Len(matches) = Cardinality(MatchingIdx)
            /\ \A k \in 1..Len(idx) :
                   /\ k > 1 => idx[k - 1] < idx[k]
                   /\ matches[k] = Join(Neighbourhood(Lines, idx[k]), <<LF>>)

\* C2 happens: two matching lines, one of which holds the query twice.
C2_Witness ==
    /\ Scanned
    /\ Len(matches) = 2
    /\ query # <<>>
    /\ \E i \in MatchingIdx :
           Cardinality(Occurrences(Effective(Lines[i]), Effective(query))) >= 2

\* C3: the context emitted for the matching line i is line i-1 if i > 0, line i,
\* line i+1 if i is not the last index: no before entry on the first line, no
\* after entry on the last, between 1 and 3 lines, all of them original text.
C3_ContextIsOriginalNeighbourhood ==
    Scanned =>
        LET idx == Ascending(MatchingIdx)
        IN  \A k \in 1..Len(matches) :
                LET i == idx[k]
                    context == Split(matches[k])
                IN  /\ Len(context) \in 1..3
                    /\ context = Neighbourhood(Lines, i)
                    /\ i = 1 => context[1] = Lines[1]
                    /\ i = Len(Lines) => context[Len(context)] = Lines[i]
                    /\ Len(context) = 1 + (IF i > 1 THEN 1 ELSE 0)
                                        + (IF i < Len(Lines) THEN 1 ELSE 0)

\* C3 happens: a case-insensitive match on a middle line whose context holds
\* upper-case text, beside a match on the first line.
C3_Witness ==
    /\ Scanned
    /\ ci
    /\ \E k \in 1..Len(matches) :
           /\ Len(Split(matches[k])) = 3
           /\ ToLowerCase(matches[k]) # matches[k]
    /\ 1 \in MatchingIdx
    /\ Len(Lines) > 1

UpperSym(c) ==
    CASE c = "a" -> "A"
      [] c = "b" -> "B"
      [] c \in {SmallSigma, FinalSigma} -> CapSigma
      [] OTHER -> c

\* x and y differ in letter case only.
CaseVariant(x, y) ==
    /\ Len(x) = Len(y)
    /\ \A k \in 1..Len(x) : UpperSym(x[k]) = UpperSym(y[k])
    /\ x # y

SigmaFree(s) == \A k \in 1..Len(s) : s[k] # CapSigma

C4_MatchRule ==
    Len(matches) =
        Cardinality({i \in 1..Len(Lines) :
                        IF ci THEN Includes(ToLowerCase(Lines[i]), ToLowerCase(query))
                              ELSE Includes(Lines[i], query)})

C4_Consequences ==
    \A i \in 1..Len(Lines) :
        /\ LineMatches(Lines[i], query, FALSE) => LineMatches(Lines[i], query, TRUE)
        /\ CaseVariant(query, Lines[i]) =>
               /\ LineMatches(Lines[i], query, TRUE)
               /\ ~LineMatches(Lines[i], query, FALSE)

C5_EmptyQueryMatchesEveryLine ==
    (Scanned /\ query = <<>>) =>
        /\ Len(matches) = Cardinality({k \in 1..Len(text) : text[k] = LF}) + 1
        /\ Len(matches) >= 1

\* C5 happens: the empty query scanned over a text of three lines or more.
C5_Witness ==
    /\ Scanned
    /\ query = <<>>
    /\ Len(matches) >= 3

---------------------------------------------------------------------------
(* Properties of the handlers (checked under Spec and ConcSpec) *)

Started(p) == inv[p].pc # "idle"

Returned(p) == inv[p].pc = "returned"

Registered(site) ==
    site \in {<<"module-federation">>, <<"modernjs">>, <<"firebase">>}

FetchFailed(p) == inv[p].response.kind \in {"status", "rejected"}

\* The locator the specification prescribes for a page target.
PageLocator(baseLocation, target) ==
    IF \/ (Len(target) >= 7 /\ SubSeq(target, 1, 7) = <<"h", "t", "t", "p", ":", "/", "/">>)
       \/ (Len(target) >= 8 /\ SubSeq(target, 1, 8) = <<"h", "t", "t", "p", "s", ":", "/", "/">>)
    THEN target
    ELSE IF Len(target) >= 1 /\ target[1] = "/"
    THEN baseLocation \o target
    ELSE baseLocation \o <<"/">> \o target

\* C1: for every registered site and every target, fetch_doc_page hands the
\* fetch capability exactly one locator: the target itself if it begins with
\* http:// or https://, else baseLocation + target if it begins with "/", else
\* baseLocation + "/" + target (baseLocation + "/" for the empty target).
C1_PageLocatorPrecedence ==
    \A p \in DOMAIN inv :
        (Started(p) /\ inv[p].tool = "fetch_doc_page" /\ Registered(inv[p].args.site)) =>
            LET base == DOC_SITES[inv[p].args.site].baseUrl
            IN  /\ inv[p].calls = <<PageLocator(base, inv[p].args.url)>>
                /\ inv[p].args.url = <<>> => inv[p].calls = <<base \o <<"/">>>>

\* C1 happens: fetch_doc_page returned for the empty target on a registered site.
C1_Witness ==
    \E p \in DOMAIN inv :
        /\ Returned(p)
        /\ inv[p].tool = "fetch_doc_page"
        /\ inv[p].args.site = Firebase
        /\ inv[p].args.url = <<>>
        /\ inv[p].response.kind = "ok"

UnknownSiteText(site) ==
    <<"Error: Unknown site \"">> \o site \o <<"\". Valid sites are: ">>
        \o <<"module-federation", ",", " ", "modernjs", ",", " ", "firebase">>

\* C6: site lookup is total over the closed key set: a registered key obtains
\* the descriptor registered under it, and every other key makes the operation
\* return the unknown-site error naming the key and listing the valid keys in
\* registration order.
C6_SiteLookupTotal ==
    \A p \in DOMAIN inv :
        Started(p) =>
            IF Registered(inv[p].args.site)
            THEN /\ Len(inv[p].calls) = 1
                 /\ inv[p].tool # "fetch_doc_page" =>
                        StartsWith(inv[p].calls[1], DOC_SITES[inv[p].args.site].baseUrl)
                 /\ (Returned(p) /\ ~inv[p].result.isError) =>
                        Includes(inv[p].result.text, DOC_SITES[inv[p].args.site].name)
            ELSE /\ Returned(p)
                 /\ inv[p].result = [isError |-> TRUE,
                                     text |-> UnknownSiteText(inv[p].args.site)]

\* C7: every invocation returns a result, flagged as an error iff the site key
\* is unknown or the fetch failed; a fetch error reports the attempted locator
\* and the cause; a search that fetched and matched nothing is no error.
C7_ErrorIffUnknownSiteOrFetchFailure ==
    \A p \in DOMAIN inv :
        /\ inv[p].pc = "awaiting" => ENABLED FetchSettles
        /\ Returned(p) =>
               /\ inv[p].result.text # <<>>
               /\ inv[p].result.isError <=>
                      (~Registered(inv[p].args.site) \/ FetchFailed(p))
               /\ FetchFailed(p) =>
                      /\ Includes(inv[p].result.text, inv[p].calls[1])
                      /\ Includes(inv[p].result.text,
                                  inv[p].response.status \o inv[p].response.message)
               /\ (inv[p].tool = "search_docs" /\ inv[p].response.kind = "ok"
                       /\ inv[p].matches = <<>>) => ~inv[p].result.isError

\* C8: with the site omitted, each of the three tools uses module-federation,
\* the first-registered site; with caseInsensitive omitted, search_docs scans
\* case-insensitively.
C8_DefaultSiteAndCaseFlag ==
    \A p \in DOMAIN inv :
        Started(p) =>
            /\ "site" \in inv[p].omitted =>
                   /\ inv[p].args.site = <<"module-federation">>
                   /\ inv[p].args.site = SiteKeys[1]
                   /\ inv[p].tool # "fetch_doc_page" =>
                          inv[p].calls = <<HTTPS \o <<"module-federation.io", "/", "llms.txt">>>>
            /\ (inv[p].tool = "search_docs" /\ "caseInsensitive" \in inv[p].omitted) =>
                   /\ inv[p].args.caseInsensitive = TRUE
                   /\ (Returned(p) /\ inv[p].response.kind = "ok") =>
                          Len(inv[p].matches) =
                              Cardinality({i \in 1..Len(Split(inv[p].response.body)) :
                                  Includes(ToLowerCase(Split(inv[p].response.body)[i]),
                                           ToLowerCase(inv[p].args.query))})

\* C8 happens: a search with both parameters omitted found, for an upper-case
\* query, the lines that hold it in either case.
C8_Witness ==
    \E p \in DOMAIN inv :
        /\ Returned(p)
        /\ inv[p].tool = "search_docs"
        /\ inv[p].omitted = {"site", "caseInsensitive"}
        /\ inv[p].args.query = <<"A">>
        /\ Len(inv[p].matches) = 2

\* C9: the unknown-site check precedes any network activity and nothing is
\* retried: zero fetch calls for an unknown site key, exactly one for a known
\* key whether the fetch succeeds or fails, and for fetch_doc_index and
\* search_docs that call is to baseLocation + indexLocator.
C9_OneFetchAfterSiteCheck ==
    \A p \in DOMAIN inv :
        Started(p) =>
            IF Registered(inv[p].args.site)
            THEN /\ Len(inv[p].calls) = 1
                 /\ inv[p].tool # "fetch_doc_page" =>
                        inv[p].calls[1] = DOC_SITES[inv[p].args.site].baseUrl
                                            \o DOC_SITES[inv[p].args.site].indexPath
            ELSE inv[p].calls = <<>>

SameRequest(p, q) ==
    /\ inv[p].tool = inv[q].tool
    /\ inv[p].args = inv[q].args
    /\ inv[p].response = inv[q].response

Deterministic ==
    \A p, q \in DOMAIN inv :
        (Returned(p) /\ Returned(q) /\ SameRequest(p, q)) =>
            /\ inv[p].result = inv[q].result
            /\ inv[p].matches = inv[q].matches
            /\ inv[p].calls = inv[q].calls

OnlyOwnState ==
    \A p, q \in DOMAIN inv :
        (p # q /\ inv'[p] # inv[p]) => inv'[q] = inv[q]

\* C10: under any interleaving of invocations suspended at their fetch, a step
\* of one invocation leaves every other untouched, and two invocations with the
\* same arguments and the same fetch response return identical results.
C10_InvocationsIndependent ==
    []Deterministic /\ [][OnlyOwnState]_vars

\* C10 happens: two interleaved searches with equal arguments and equal fetch
\* responses have both returned matches.
C10_Witness ==
    \E p, q \in DOMAIN inv :
        /\ p # q
        /\ Returned(p) /\ Returned(q)
        /\ SameRequest(p, q)
        /\ inv[p].tool = "search_docs"
        /\ inv[p].matches # <<>>

====
